---------------------------- MODULE Spec2Model ----------------------------
(***************************************************************************)
(* DMC-620 memory controller error handling (Standalone MM) driver.        *)
(*                                                                         *)
(* Model of Platform/ARM/Drivers/Dmc620Mm: the fault event handler         *)
(* (Dmc620ErrorEventHandler, Dmc620HandleDramError) and the HEST error     *)
(* source descriptor protocol (Dmc620ErrorSourceDescInfoGet,               *)
(* Dmc620SetupDramErrorDescriptor).                                        *)
(*                                                                         *)
(* Representation.  A register value or a C integer that is used bitwise   *)
(* is the set of the positions of its one-bits (BIT31 is {31}), so that    *)
(* `&` is intersection, `|` is union and a shift moves the positions;      *)
(* 32-bit and 64-bit values are exact.  Memory is an array of bytes        *)
(* (0..255) indexed by address.  Addresses, sizes and counts are naturals. *)
(***************************************************************************)
EXTENDS Integers, Sequences, FiniteSets, TLC

VARIABLES
  Pcd,      \* platform configuration (FixedPcdGet), fixed for a behaviour
  regs,     \* DMC-620 memory mapped registers, one window per instance
  mem,      \* the reserved error status block memory, byte by byte
  pc,       \* position of the event handler ("Idle" between calls)
  loc,      \* locals of the current / most recent Dmc620HandleDramError
  call,     \* the most recent call: what it was given and what it returned
  hw        \* what the hardware has done (faults latched so far, the last one)

vars == <<Pcd, regs, mem, pc, loc, call, hw>>

----------------------------------------------------------------------------
(* Bit sets                                                                *)

BitAnd(a, b) == a \cap b

BitOr(a, b) == a \cup b

\* a >> n
ShiftRight(a, n) == { b - n : b \in { x \in a : x >= n } }

\* a << n in a UINTN (64 bits: positions that leave the word are lost)
ShiftLeft(a, n) == { b + n : b \in { x \in a : x + n <= 63 } }

\* byte k (0 = least significant) of the value a
ByteOf(a, k) ==
  LET w(b) == IF (8 * k + b) \in a THEN 2 ^ b ELSE 0
  IN  w(0) + w(1) + w(2) + w(3) + w(4) + w(5) + w(6) + w(7)

\* The value a stored little-endian in a field of len bytes; storing into a
\* narrower field drops the high bits (C's conversion to UINT8 / UINT16).
BitsToBytes(a, len) == [k \in 1 .. len |-> ByteOf(a, k - 1)]

\* the bit set of the value held by a little-endian byte sequence
BytesToBits(bytes) ==
  { p \in 0 .. (8 * Len(bytes) - 1) : (bytes[(p \div 8) + 1] \div (2 ^ (p % 8))) % 2 = 1 }

\* the natural number n stored little-endian in a field of len bytes
RECURSIVE NatToBytes(_, _)
NatToBytes(n, len) ==
  IF len = 0 THEN <<>> ELSE <<n % 256>> \o NatToBytes(n \div 256, len - 1)

Zeros(len) == [k \in 1 .. len |-> 0]

----------------------------------------------------------------------------
(* Dmc620Mm.h: register fields                                             *)

DMC620_ERR_STATUS_MV == {26}
DMC620_ERR_STATUS_AV == {31}

DMC620_ERR_MISC0_COLUMN_MASK == 0 .. 9
DMC620_ERR_MISC0_ROW_MASK == 10 .. 27
DMC620_ERR_MISC0_ROW_SHIFT == 10
DMC620_ERR_MISC0_RANK_MASK == {28, 29, 30}
DMC620_ERR_MISC0_RANK_SHIFT == 28
DMC620_ERR_MISC0_VAILD == {31}

DMC620_ERR_MISC1_VAILD == {31}
DMC620_ERR_MISC1_BANK_MASK == 0 .. 3

DMC620_ERR_GSR_ECC_CORRECTED_FH == {1}

\* The registers of one error record (DMC620_ERR_REGS_TYPE) the driver uses.
ErrRegNames ==
  {"ErrStatus", "ErrAddr0", "ErrAddr1", "ErrMisc0", "ErrMisc1",
   "ErrMisc2", "ErrMisc3", "ErrMisc4", "ErrMisc5"}

\* Guid/Cper.h validity bits of EFI_PLATFORM_MEMORY_ERROR_DATA.ValidFields
EFI_PLATFORM_MEMORY_PHY_ADDRESS_VALID == {1}
EFI_PLATFORM_MEMORY_PHY_ADDRESS_MASK_VALID == {2}
EFI_PLATFORM_MEMORY_BANK_VALID == {6}
EFI_PLATFORM_MEMORY_ROW_VALID == {8}
EFI_PLATFORM_MEMORY_COLUMN_VALID == {9}
EFI_PLATFORM_MEMORY_ERROR_RANK_NUM_VALID == {15}
EFI_PLATFORM_MEMORY_ERROR_EXTENDED_ROW_BIT_16_17_VALID == {18}

EFI_ACPI_6_3_ERROR_SEVERITY_FATAL == 1
EFI_ACPI_6_3_ERROR_SEVERITY_CORRECTED == 2
EFI_ACPI_6_3_GENERIC_ERROR_DATA_ENTRY_REVISION == 768

\* EFI_ERROR_SECTION_PLATFORM_MEMORY_GUID as it lies in memory
\* { 0xa5bc1114, 0x6f64, 0x4ede, { 0xb8, 0x63, 0x3e, 0x83, 0xed, 0x7c, 0x83, 0xb1 } }
EFI_ERROR_SECTION_PLATFORM_MEMORY_GUID ==
  <<20, 17, 188, 165, 100, 111, 222, 78, 184, 99, 62, 131, 237, 124, 131, 177>>

\* sizeof (UINTN) on AArch64
SizeofUintn == 8
\* sizeof (EFI_ACPI_6_3_GENERIC_ERROR_STATUS_STRUCTURE)
SizeofStatus == 20
\* sizeof (EFI_ACPI_6_3_GENERIC_ERROR_DATA_ENTRY_STRUCTURE)
SizeofDataEntry == 72
\* sizeof (EFI_PLATFORM_MEMORY_ERROR_DATA)
SizeofMemoryErrorData == 80
\* sizeof (EFI_ACPI_6_3_GENERIC_HARDWARE_ERROR_SOURCE_VERSION_2_STRUCTURE)
SizeofGhesV2 == 92


----------------------------------------------------------------------------
(* Platform configuration (FixedPcdGet)                                    *)

PcdDmc620NumCtrl == 2
PcdDmc620DramOneBitErrorDataBase == 1175453696
PcdDmc620DramOneBitErrorSourceId == 256
PcdDmc620DramErrorSdeiEventBase == 804

\* Values of PcdDmc620ErrSourceCount (error sources per controller) and of
\* PcdDmc620DramOneBitErrorDataSize (bytes reserved per error status block).
ErrSourceCounts == {1, 2}
DataSizes == {192}

\* The largest block size any configuration of the model uses.
MaxDataSize == 192

DmcInstances == 0 .. (PcdDmc620NumCtrl - 1)

\* The reserved memory the model keeps: one block per instance.
ErrorDataRegion ==
  PcdDmc620DramOneBitErrorDataBase ..
    (PcdDmc620DramOneBitErrorDataBase + PcdDmc620NumCtrl * MaxDataSize - 1)

\* Base + (Size * DmcIdx): the error status block of instance DmcIdx
ErrorBlockData(DmcIdx) ==
  PcdDmc620DramOneBitErrorDataBase + (Pcd.Dmc620DramOneBitErrorDataSize * DmcIdx)

----------------------------------------------------------------------------
(* Memory and memory mapped I/O                                            *)

\* CopyMem / a structure assignment: bytes stored from Address on
WriteMem(m, Address, bytes) ==
  [a \in DOMAIN m |->
     IF a >= Address /\ a < Address + Len(bytes) THEN bytes[a - Address + 1] ELSE m[a]]

\* SetMem (Buffer, Length, Value)
SetMem(m, Buffer, Length, Value) ==
  [a \in DOMAIN m |-> IF a >= Buffer /\ a < Buffer + Length THEN Value ELSE m[a]]

ReadMem(m, Address, len) == [k \in 1 .. len |-> m[Address + k - 1]]

\* MmioRead32 of a register of an error record
MmioRead32(ErrRecord, reg) == ErrRecord[reg]

\* MmioWrite32 to a register of an error record.  ErrStatus is write-one-to-
\* clear ("Clear the status register so that new error records are
\* populated"): each one-bit written clears that bit.  The other registers
\* take the value written.
MmioWrite32(ErrRecord, reg, Value) ==
  IF reg = "ErrStatus"
    THEN [ErrRecord EXCEPT !.ErrStatus = @ \ Value]
    ELSE [ErrRecord EXCEPT ![reg] = Value]


----------------------------------------------------------------------------
(* Dmc620HandleDramError                                                   *)

\* The locals of Dmc620HandleDramError before its first statement.
NoLocals ==
  [DmcInstance |-> 0, ErrRecord |-> "Err1", CorrectedError |-> 0,
   ErrStatus |-> {}, ErrAddr0 |-> {}, ErrAddr1 |-> {},
   ErrMisc0 |-> {}, ErrMisc1 |-> {}, ResetReg |-> {}]

\* Lines 60-76: select the error record to use by the type of DRAM error.
SelectErrRecord(DmcInstance, ErrRecType) ==
  IF ErrRecType = DMC620_ERR_GSR_ECC_CORRECTED_FH
    THEN [NoLocals EXCEPT !.DmcInstance = DmcInstance,
                          !.ErrRecord = "Err1", !.CorrectedError = 1]
    ELSE [NoLocals EXCEPT !.DmcInstance = DmcInstance,
                          !.ErrRecord = "Err2", !.CorrectedError = 0]

\* The statements of Dmc620HandleDramError that access the hardware, by the
\* source line of each, in program order; "L174" builds the record.
HandlerSteps ==
  <<"L79", "L80", "L81", "L82", "L83", "L86", "L87", "L155", "L167", "L168", "L174">>

RECURSIVE IndexOf(_, _, _)
IndexOf(seq, x, k) == IF seq[k] = x THEN k ELSE IndexOf(seq, x, k + 1)

\* A faulty variant of NextStep: the handler going back to read the error
\* record again after it has cleared the status register the second time.
NextStep_Retry(label) ==
  IF label = "L168" THEN "L79" ELSE HandlerSteps[IndexOf(HandlerSteps, label, 1) + 1]

NextStep(label) == HandlerSteps[IndexOf(HandlerSteps, label, 1) + 1]

\* Lines 155-161: Misc registers 2..5 are cleared when the status has MV set.
ClearMiscCounters(ErrRecord, L) ==
  IF BitAnd(L.ErrStatus, DMC620_ERR_STATUS_MV) /= {}
    THEN MmioWrite32(MmioWrite32(MmioWrite32(MmioWrite32(ErrRecord,
           "ErrMisc2", {}), "ErrMisc3", {}), "ErrMisc4", {}), "ErrMisc5", {})
    ELSE ErrRecord

\* A faulty variant of HandlerStep: the status register "cleared" by writing
\* zero to it, which clears no bit of a write-one-to-clear register.
HandlerStep_WriteZero(label, R, L) ==
  CASE label \in {"L79", "L86", "L167"}
                      -> [R |-> R, L |-> [L EXCEPT !.ErrStatus =
                                            IF label = "L79" THEN MmioRead32(R, "ErrStatus") ELSE @]]
    [] label = "L80"  -> [R |-> R, L |-> [L EXCEPT !.ErrAddr0 = MmioRead32(R, "ErrAddr0")]]
    [] label = "L81"  -> [R |-> R, L |-> [L EXCEPT !.ErrAddr1 = MmioRead32(R, "ErrAddr1")]]
    [] label = "L82"  -> [R |-> R, L |-> [L EXCEPT !.ErrMisc0 = MmioRead32(R, "ErrMisc0")]]
    [] label = "L83"  -> [R |-> R, L |-> [L EXCEPT !.ErrMisc1 = MmioRead32(R, "ErrMisc1")]]
    [] label \in {"L87", "L168"}
                      -> [R |-> MmioWrite32(R, "ErrStatus", {}), L |-> L]
    [] label = "L155" -> [R |-> ClearMiscCounters(R, L), L |-> L]

\* One hardware access of the handler: from the error record's registers R
\* and the locals L to the registers and locals after the statement.
HandlerStep(label, R, L) ==
  CASE label = "L79"  -> [R |-> R, L |-> [L EXCEPT !.ErrStatus = MmioRead32(R, "ErrStatus")]]
    [] label = "L80"  -> [R |-> R, L |-> [L EXCEPT !.ErrAddr0 = MmioRead32(R, "ErrAddr0")]]
    [] label = "L81"  -> [R |-> R, L |-> [L EXCEPT !.ErrAddr1 = MmioRead32(R, "ErrAddr1")]]
    [] label = "L82"  -> [R |-> R, L |-> [L EXCEPT !.ErrMisc0 = MmioRead32(R, "ErrMisc0")]]
    [] label = "L83"  -> [R |-> R, L |-> [L EXCEPT !.ErrMisc1 = MmioRead32(R, "ErrMisc1")]]
    [] label = "L86"  -> [R |-> R, L |-> [L EXCEPT !.ResetReg = MmioRead32(R, "ErrStatus")]]
    [] label = "L87"  -> [R |-> MmioWrite32(R, "ErrStatus", L.ResetReg), L |-> L]
    [] label = "L155" -> [R |-> ClearMiscCounters(R, L),
                          L |-> IF BitAnd(L.ErrStatus, DMC620_ERR_STATUS_MV) /= {}
                                  THEN [L EXCEPT !.ResetReg = {}] ELSE L]
    [] label = "L167" -> [R |-> R, L |-> [L EXCEPT !.ResetReg = MmioRead32(R, "ErrStatus")]]
    [] label = "L168" -> [R |-> MmioWrite32(R, "ErrStatus", L.ResetReg), L |-> L]

\* The hardware accesses from statement label to the end, with no hardware
\* activity in between.
RECURSIVE RunHandler(_, _, _)
RunHandler(label, R, L) ==
  IF label = "L174" THEN [R |-> R, L |-> L]
  ELSE LET s == HandlerStep(label, R, L) IN RunHandler(NextStep(label), s.R, s.L)

\* A faulty variant of PhysicalAddressOf: the halves the wrong way round.
PhysicalAddressOf_Swapped(L) == BitOr(ShiftLeft(L.ErrAddr0, 32), L.ErrAddr1)

\* Line 110: (ErrAddr1 << 32) | ErrAddr0, computed in UINTN
PhysicalAddressOf(L) == BitOr(ShiftLeft(L.ErrAddr1, 32), L.ErrAddr0)

\* A faulty variant of Misc1Valid: ErrMisc1 decoded on its own valid bit alone.
Misc1Valid_NoStatusCheck(L) == BitAnd(L.ErrMisc1, DMC620_ERR_MISC1_VAILD) /= {}

\* Lines 143-144: (ErrStatus & MV) && (ErrMisc1 & DMC620_ERR_MISC1_VAILD)
Misc1Valid(L) ==
  BitAnd(L.ErrStatus, DMC620_ERR_STATUS_MV) /= {}
    /\ BitAnd(L.ErrMisc1, DMC620_ERR_MISC1_VAILD) /= {}

\* A faulty variant of ExtendedRowOf: the row field shifted by 16 only, the
\* position of the field in ErrMisc0 forgotten.
ExtendedRowOf_NoRowShift(L) ==
  ShiftRight(BitAnd(L.ErrMisc0, DMC620_ERR_MISC0_ROW_MASK), 16)

\* Lines 132-134: (ErrMisc0 & ROW_MASK) >> (ROW_SHIFT + 16)
ExtendedRowOf(L) ==
  ShiftRight(BitAnd(L.ErrMisc0, DMC620_ERR_MISC0_ROW_MASK),
             DMC620_ERR_MISC0_ROW_SHIFT + 16)

\* Lines 93-148: EFI_PLATFORM_MEMORY_ERROR_DATA MemorySectionInfo = {0}, then
\* the fields the error record registers make valid.
MemorySectionInfo(L) ==
  LET Av   == BitAnd(L.ErrStatus, DMC620_ERR_STATUS_AV) /= {}
      Mv0  == BitAnd(L.ErrStatus, DMC620_ERR_STATUS_MV) /= {}
                /\ BitAnd(L.ErrMisc0, DMC620_ERR_MISC0_VAILD) /= {}
      Mv1  == Misc1Valid(L)
      Row  == BitAnd(L.ErrMisc0, DMC620_ERR_MISC0_ROW_MASK)
  IN
  [ValidFields |->
     BitOr(BitOr(
       IF Av THEN BitOr(EFI_PLATFORM_MEMORY_PHY_ADDRESS_MASK_VALID,
                        EFI_PLATFORM_MEMORY_PHY_ADDRESS_VALID) ELSE {},
       IF Mv0 THEN BitOr(BitOr(EFI_PLATFORM_MEMORY_COLUMN_VALID,
                               EFI_PLATFORM_MEMORY_ERROR_EXTENDED_ROW_BIT_16_17_VALID),
                         EFI_PLATFORM_MEMORY_ERROR_RANK_NUM_VALID) ELSE {}),
       IF Mv1 THEN EFI_PLATFORM_MEMORY_BANK_VALID ELSE {}),
   PhysicalAddressMask |-> IF Av THEN 0 .. 47 ELSE {},
   PhysicalAddress |-> IF Av THEN PhysicalAddressOf(L) ELSE {},
   Column   |-> IF Mv0 THEN BitAnd(L.ErrMisc0, DMC620_ERR_MISC0_COLUMN_MASK) ELSE {},
   Row      |-> IF Mv0 THEN ShiftRight(Row, DMC620_ERR_MISC0_ROW_SHIFT) ELSE {},
   Extended |-> IF Mv0 THEN ExtendedRowOf(L) ELSE {},
   RankNum  |-> IF Mv0 THEN ShiftRight(BitAnd(L.ErrMisc0, DMC620_ERR_MISC0_RANK_MASK),
                                       DMC620_ERR_MISC0_RANK_SHIFT) ELSE {},
   Bank     |-> IF Mv1 THEN BitAnd(L.ErrMisc1, DMC620_ERR_MISC1_BANK_MASK) ELSE {}]

\* EFI_PLATFORM_MEMORY_ERROR_DATA as it lies in memory (Guid/Cper.h): offset
\* and width in bytes of each field.
MemoryErrorDataLayout ==
  [ValidFields |-> <<0, 8>>, ErrorStatus |-> <<8, 8>>, PhysicalAddress |-> <<16, 8>>,
   PhysicalAddressMask |-> <<24, 8>>, Node |-> <<32, 2>>, Card |-> <<34, 2>>,
   ModuleRank |-> <<36, 2>>, Bank |-> <<38, 2>>, Device |-> <<40, 2>>,
   Row |-> <<42, 2>>, Column |-> <<44, 2>>, BitPosition |-> <<46, 2>>,
   RequestorId |-> <<48, 8>>, ResponderId |-> <<56, 8>>, TargetId |-> <<64, 8>>,
   ErrorType |-> <<72, 1>>, Extended |-> <<73, 1>>, RankNum |-> <<74, 2>>,
   CardHandle |-> <<76, 2>>, ModuleHandle |-> <<78, 2>>]

\* The bytes of a MemorySectionInfo: each field narrowed to its width, the
\* fields the driver never assigns zero.
MemoryErrorDataBytes(Info) ==
  LET F(name) == BitsToBytes(Info[name], MemoryErrorDataLayout[name][2]) IN
  F("ValidFields") \o Zeros(8) \o F("PhysicalAddress") \o F("PhysicalAddressMask")
    \o Zeros(6) \o F("Bank") \o Zeros(2) \o F("Row") \o F("Column") \o Zeros(2)
    \o Zeros(24) \o Zeros(1) \o F("Extended") \o F("RankNum") \o Zeros(4)

\* Lines 187-204: EFI_ACPI_6_3_GENERIC_ERROR_STATUS_STRUCTURE.  BlockStatus is
\* a bit-field: UncorrectableErrorValid bit 0, CorrectableErrorValid bit 1,
\* MultipleUncorrectableErrors bit 2, MultipleCorrectableErrors bit 3,
\* ErrorDataEntryCount bits 4..13.
StatusHeaderBytes(CorrectedError) ==
  LET UncorrectableErrorValid == IF CorrectedError = 0 THEN 0 ELSE 1
      CorrectableErrorValid   == IF CorrectedError = 1 THEN 1 ELSE 0
      BlockStatus ==
        (IF UncorrectableErrorValid = 1 THEN {0} ELSE {})
          \cup (IF CorrectableErrorValid = 1 THEN {1} ELSE {})
          \cup ShiftLeft({0}, 4)
  IN BitsToBytes(BlockStatus, 4)
       \o NatToBytes(SizeofStatus + SizeofDataEntry, 4)          \* RawDataOffset
       \o NatToBytes(0, 4)                                       \* RawDataLength
       \o NatToBytes(SizeofDataEntry + SizeofMemoryErrorData, 4) \* DataLength
       \o NatToBytes(IF CorrectedError = 1 THEN EFI_ACPI_6_3_ERROR_SEVERITY_CORRECTED
                                           ELSE EFI_ACPI_6_3_ERROR_SEVERITY_FATAL, 4)

\* Lines 212-226: EFI_ACPI_6_3_GENERIC_ERROR_DATA_ENTRY_STRUCTURE, with the
\* section type copied in by CopyGuid.
SectionDescBytes(CorrectedError) ==
  EFI_ERROR_SECTION_PLATFORM_MEMORY_GUID                         \* SectionType
    \o NatToBytes(IF CorrectedError = 1 THEN EFI_ACPI_6_3_ERROR_SEVERITY_CORRECTED
                                        ELSE EFI_ACPI_6_3_ERROR_SEVERITY_FATAL, 4)
    \o NatToBytes(EFI_ACPI_6_3_GENERIC_ERROR_DATA_ENTRY_REVISION, 2)
    \o NatToBytes(0, 1)                                          \* ValidationBits
    \o NatToBytes(0, 1)                                          \* Flags
    \o NatToBytes(SizeofMemoryErrorData, 4)                      \* ErrorDataLength
    \o Zeros(16) \o Zeros(20) \o Zeros(8)                        \* FruId, FruText, Timestamp

\* Offsets into the error status block of what lines 174-229 locate.
ErrorStatusRegisterOffset == SizeofUintn
ErrStatusBlockOffset == 2 * SizeofUintn
ErrBlockSectionDescOffset == ErrStatusBlockOffset + SizeofStatus
ErrBlockSectionDataOffset == ErrBlockSectionDescOffset + SizeofDataEntry

\* A faulty variant of BuildErrorRecord: the error status register set to
\* its own address instead of the address of the status block after it.
BuildErrorRecord_PointerToSelf(m, L, ErrorBlockBaseAddress) ==
  WriteMem(m, ErrorBlockBaseAddress + ErrorStatusRegisterOffset,
    NatToBytes(ErrorBlockBaseAddress + ErrorStatusRegisterOffset, SizeofUintn)
      \o StatusHeaderBytes(L.CorrectedError)
      \o SectionDescBytes(L.CorrectedError)
      \o MemoryErrorDataBytes(MemorySectionInfo(L)))

\* A faulty variant of BuildErrorRecord: the read acknowledge word consulted,
\* and the block left as it is while the word is not zero.
BuildErrorRecord_AckChecked(m, L, ErrorBlockBaseAddress) ==
  IF ReadMem(m, ErrorBlockBaseAddress, SizeofUintn) /= Zeros(SizeofUintn)
    THEN m
    ELSE WriteMem(m, ErrorBlockBaseAddress + ErrorStatusRegisterOffset,
           NatToBytes(ErrorBlockBaseAddress + ErrStatusBlockOffset, SizeofUintn)
             \o StatusHeaderBytes(L.CorrectedError)
             \o SectionDescBytes(L.CorrectedError)
             \o MemoryErrorDataBytes(MemorySectionInfo(L)))

\* Lines 174-234: the error status register, the status header, the section
\* descriptor and the memory error section stored into the block at
\* ErrorBlockBaseAddress.  The read acknowledge word (offset 0) is not stored.
BuildErrorRecord(m, L, ErrorBlockBaseAddress) ==
  WriteMem(m, ErrorBlockBaseAddress + ErrorStatusRegisterOffset,
    NatToBytes(ErrorBlockBaseAddress + ErrStatusBlockOffset, SizeofUintn)
      \o StatusHeaderBytes(L.CorrectedError)
      \o SectionDescBytes(L.CorrectedError)
      \o MemoryErrorDataBytes(MemorySectionInfo(L)))

\* Dmc620HandleDramError run to completion on the registers DmcCtrl of one
\* instance and the memory m: the registers, memory and locals it leaves.
Dmc620HandleDramError(DmcCtrl, m, DmcInstance, ErrRecType, ErrorBlockBaseAddress) ==
  LET L0 == SelectErrRecord(DmcInstance, ErrRecType)
      s  == RunHandler("L79", DmcCtrl[L0.ErrRecord], L0)
  IN [DmcCtrl |-> [DmcCtrl EXCEPT ![L0.ErrRecord] = s.R],
      mem |-> BuildErrorRecord(m, s.L, ErrorBlockBaseAddress),
      L |-> s.L]


----------------------------------------------------------------------------
(* Dmc620MmErrorSourceInfo.c: the HEST error source descriptors            *)

\* A descriptor slot of the caller's buffer the call has not stored into.
Unwritten == [Type |-> "unwritten"]

\* Lines 44-51: the error status block of instance DmcIdx initialized with 0.
ZeroErrorBlock(m, DmcIdx) ==
  SetMem(m, ErrorBlockData(DmcIdx), Pcd.Dmc620DramOneBitErrorDataSize, 0)

\* Lines 54-82: the GHESv2 error source descriptor of instance DmcIdx.
\* SourceId is a UINT16, the notification vector a UINT32.
DramErrorDescriptor(DmcIdx) ==
  [Type |-> "EFI_ACPI_6_3_GENERIC_HARDWARE_ERROR_VERSION_2",
   SourceId |-> (PcdDmc620DramOneBitErrorSourceId + DmcIdx) % 65536,
   RelatedSourceId |-> 65535,
   Flags |-> 0,
   Enabled |-> 1,
   NumberOfRecordsToPreAllocate |-> 1,
   MaxSectionsPerRecord |-> 1,
   MaxRawDataLength |-> SizeofMemoryErrorData,
   ErrorStatusAddress |-> ErrorBlockData(DmcIdx) + 8,
   NotificationStructure |->
     [Type |-> "SOFTWARE_DELEGATED_EXCEPTION",
      PollInterval |-> 0,
      Vector |-> PcdDmc620DramErrorSdeiEventBase + DmcIdx],
   ErrorStatusBlockLength |-> SizeofStatus + SizeofDataEntry + SizeofMemoryErrorData,
   ReadAckRegister |-> ErrorBlockData(DmcIdx),
   ReadAckPreserve |-> 0,
   ReadAckWrite |-> 0]

\* A faulty variant of DramErrorDescriptor: every instance given the base
\* event id and the base source id.
DramErrorDescriptor_BaseIds(DmcIdx) ==
  [DramErrorDescriptor(DmcIdx) EXCEPT
     !.SourceId = PcdDmc620DramOneBitErrorSourceId,
     !.NotificationStructure.Vector = PcdDmc620DramErrorSdeiEventBase]

\* The descriptor line 54 stores for instance DmcIdx.
ErrorDescOf(DmcIdx) == DramErrorDescriptor(DmcIdx)

\* Dmc620SetupDramErrorDescriptor (ErrorDesc, DmcIdx): the memory and the
\* caller's buffer after it; ErrorDesc is the index of a slot of the buffer.
Dmc620SetupDramErrorDescriptor(m, Buffer, ErrorDesc, DmcIdx) ==
  [mem |-> ZeroErrorBlock(m, DmcIdx),
   Buffer |-> [Buffer EXCEPT ![ErrorDesc] = ErrorDescOf(DmcIdx)]]

\* Lines 141-145: for (DmcIdx = 0; DmcIdx < NumCtrl; DmcIdx++), one
\* descriptor stored and ErrorDescriptor++ per turn.
RECURSIVE DescriptorLoop(_, _, _, _)
DescriptorLoop(m, Buffer, ErrorDescriptor, DmcIdx) ==
  IF DmcIdx < PcdDmc620NumCtrl
    THEN LET s == Dmc620SetupDramErrorDescriptor(m, Buffer, ErrorDescriptor, DmcIdx)
         IN  DescriptorLoop(s.mem, s.Buffer, ErrorDescriptor + 1, DmcIdx + 1)
    ELSE [mem |-> m, Buffer |-> Buffer]

\* A faulty variant of ErrorSourcesLength: the length of the descriptors the
\* loop stores, one per controller.
ErrorSourcesLength_PerCtrl == PcdDmc620NumCtrl * SizeofGhesV2

\* Lines 119-122 and 123-124: the length and the count the call reports.
ErrorSourcesLength == PcdDmc620NumCtrl * Pcd.Dmc620ErrSourceCount * SizeofGhesV2

ErrorSourcesCount == PcdDmc620NumCtrl * Pcd.Dmc620ErrSourceCount

----------------------------------------------------------------------------
(* The hardware                                                            *)

\* An error record with nothing latched.
ClearErrRecord == [r \in ErrRegNames |-> {}]

\* Error record register values of the faults the hardware raises.
\* ErrMisc0: column 0x155, row 0x30001, rank 5, with and without its valid
\* bit; ErrMisc1: bank 0xA and a bit outside the bank field, with and without
\* its valid bit; the address halves 0x00000001 / 0x00000002 when ErrMisc0 is
\* valid and 0xFFFFFFFF / 0x0000FFFF when it is not.
Misc0Fields == {0, 2, 4, 6, 8} \cup {10, 26, 27} \cup {28, 30}
Misc1Fields == {1, 3} \cup {4}
StatusValues ==
  {DMC620_ERR_STATUS_AV, DMC620_ERR_STATUS_MV,
   DMC620_ERR_STATUS_AV \cup DMC620_ERR_STATUS_MV}
Misc0Values == {Misc0Fields, Misc0Fields \cup DMC620_ERR_MISC0_VAILD}
Misc1Values == {Misc1Fields, Misc1Fields \cup DMC620_ERR_MISC1_VAILD}

\* 1-bit faults latch into error record 1 and signal Errgsr bit 1, alone or
\* with the bit of another source; a fault of another source latches into
\* error record 2 and signals its own bit only.
Fault(r, g, s, m0, m1) ==
  [ErrRecord |-> r, Errgsr |-> g, ErrStatus |-> s,
   ErrAddr0 |-> IF m0 = Misc0Fields THEN 0 .. 31 ELSE {0},
   ErrAddr1 |-> IF m0 = Misc0Fields THEN 0 .. 15 ELSE {1},
   ErrMisc0 |-> m0, ErrMisc1 |-> m1]

Faults ==
  { Fault("Err1", DMC620_ERR_GSR_ECC_CORRECTED_FH,
          DMC620_ERR_STATUS_AV \cup DMC620_ERR_STATUS_MV, m0, m1) :
      m0 \in Misc0Values, m1 \in Misc1Values }
  \cup
  { Fault("Err1", DMC620_ERR_GSR_ECC_CORRECTED_FH, s,
          Misc0Fields \cup DMC620_ERR_MISC0_VAILD,
          Misc1Fields \cup DMC620_ERR_MISC1_VAILD) :
      s \in StatusValues }
  \cup
  { Fault("Err1", DMC620_ERR_GSR_ECC_CORRECTED_FH, DMC620_ERR_STATUS_MV,
          Misc0Fields, Misc1Fields),
    Fault("Err1", DMC620_ERR_GSR_ECC_CORRECTED_FH \cup {0},
          DMC620_ERR_STATUS_AV \cup DMC620_ERR_STATUS_MV,
          Misc0Fields \cup DMC620_ERR_MISC0_VAILD,
          Misc1Fields \cup DMC620_ERR_MISC1_VAILD),
    Fault("Err2", {0}, DMC620_ERR_STATUS_AV \cup DMC620_ERR_STATUS_MV,
          Misc0Fields \cup DMC620_ERR_MISC0_VAILD,
          Misc1Fields \cup DMC620_ERR_MISC1_VAILD) }

\* The number of faults the hardware raises in a behaviour.
MaxFaults == 1

\* The error record after the hardware latched fault f into it: the status
\* and syndrome registers hold the latest fault, the error counters
\* (ErrMisc2..5) count it.
LatchFault(R, f) ==
  [R EXCEPT !.ErrStatus = f.ErrStatus,
            !.ErrAddr0 = f.ErrAddr0, !.ErrAddr1 = f.ErrAddr1,
            !.ErrMisc0 = f.ErrMisc0, !.ErrMisc1 = f.ErrMisc1,
            !.ErrMisc2 = {0}, !.ErrMisc3 = {0}, !.ErrMisc4 = {0}, !.ErrMisc5 = {0}]

----------------------------------------------------------------------------
(* State                                                                   *)

\* What the reserved memory holds before the driver first stores into it.
InitFill == {165}

NoCall ==
  [op |-> "None", DmcIdx |-> 0, ErrGsr |-> {}, built |-> FALSE, BufferIsNull |-> FALSE,
   Status |-> "None", CommBufferSize |-> SizeofUintn, Buffer |-> <<>>,
   ErrorSourcesLength |-> 0, ErrorSourcesCount |-> 0]

\* What a call record keeps of the call before it.
Summary(c) ==
  [op |-> c.op, DmcIdx |-> c.DmcIdx, built |-> c.built, BufferIsNull |-> c.BufferIsNull,
   ErrorSourcesLength |-> c.ErrorSourcesLength, ErrorSourcesCount |-> c.ErrorSourcesCount]

Init ==
  /\ Pcd \in [Dmc620ErrSourceCount : ErrSourceCounts,
              Dmc620DramOneBitErrorDataSize : DataSizes]
  /\ regs = [i \in DmcInstances |->
               [Errgsr |-> {}, Err1 |-> ClearErrRecord, Err2 |-> ClearErrRecord]]
  /\ \E fill \in InitFill : mem = [a \in ErrorDataRegion |-> fill]
  /\ pc = "Idle"
  /\ loc = NoLocals
  /\ call = [c |-> NoCall, prev |-> Summary(NoCall)]
  /\ hw = [count |-> 0, latched |-> [i \in DmcInstances |-> {}], generated |-> FALSE]

----------------------------------------------------------------------------
(* Actions                                                                 *)

\* The hardware of instance i latches fault f and updates the global status.
HwFault(i, f) ==
  /\ hw.count < MaxFaults
  /\ regs' = [regs EXCEPT ![i].Errgsr = f.Errgsr,
                          ![i][f.ErrRecord] = LatchFault(@, f)]
  /\ hw' = [hw EXCEPT !.count = @ + 1,
                      !.latched[i] = IF f.ErrRecord = "Err1" THEN {f} ELSE @]
  /\ call' = [c |-> [NoCall EXCEPT !.op = "Hw", !.DmcIdx = i], prev |-> Summary(NoCall)]
  /\ UNCHANGED <<Pcd, mem, pc, loc>>

\* hw.latched[i] is the fault error record 1 of instance i holds, if any.
\* The fault whose status bits software has not cleared: the one a handler
\* entered now has to report.
StillLatched(i) == { f \in hw.latched[i] : f.ErrStatus \subseteq regs[i].Err1.ErrStatus }

\* A faulty variant of CorrectedFaultSignalled: any bit of Errgsr taken for
\* the 1-bit ECC fault.
CorrectedFaultSignalled_AnyBit(ErrGsr) == ErrGsr /= {}

\* Line 284: ErrGsr & DMC620_ERR_GSR_ECC_CORRECTED_FH
CorrectedFaultSignalled(ErrGsr) ==
  BitAnd(ErrGsr, DMC620_ERR_GSR_ECC_CORRECTED_FH) /= {}

\* Lines 269-306: the event handler run to completion for the instance DmcIdx
\* the communication buffer names.
Dmc620ErrorEventHandler(DmcIdx) ==
  LET DmcCtrl == regs[DmcIdx]
      ErrGsr  == DmcCtrl.Errgsr
      Handled == CorrectedFaultSignalled(ErrGsr)
      r == Dmc620HandleDramError(DmcCtrl, mem, DmcIdx, DMC620_ERR_GSR_ECC_CORRECTED_FH,
                                 ErrorBlockData(DmcIdx))
  IN
  /\ pc = "Idle"
  /\ IF Handled
       THEN /\ regs' = [regs EXCEPT ![DmcIdx] = r.DmcCtrl]
            /\ mem' = r.mem
            /\ loc' = r.L
       ELSE UNCHANGED <<regs, mem, loc>>
  /\ call' = [c |-> [NoCall EXCEPT !.op = "Dispatch", !.DmcIdx = DmcIdx,
                                   !.ErrGsr = ErrGsr, !.built = Handled,
                                   !.Status = "EFI_SUCCESS", !.CommBufferSize = 0],
              prev |-> Summary(call.c)]
  /\ hw' = IF Handled THEN [hw EXCEPT !.latched[DmcIdx] = StillLatched(DmcIdx)] ELSE hw
  /\ UNCHANGED <<Pcd, pc>>

\* Lines 119-147: the protocol call with Buffer NULL (the sizing query) or
\* with a buffer of the length the query reported.
Dmc620ErrorSourceDescInfoGet(BufferIsNull) ==
  LET Buffer == [k \in 1 .. ErrorSourcesCount |-> Unwritten]
      s == DescriptorLoop(mem, Buffer, 1, 0)
  IN
  /\ pc = "Idle"
  /\ IF BufferIsNull
       THEN /\ call' = [c |-> [NoCall EXCEPT !.op = "DescInfoGet", !.BufferIsNull = TRUE,
                                 !.Status = "EFI_INVALID_PARAMETER",
                                 !.ErrorSourcesLength = ErrorSourcesLength,
                                 !.ErrorSourcesCount = ErrorSourcesCount],
                        prev |-> Summary(call.c)]
            /\ mem' = mem
       ELSE /\ call' = [c |-> [NoCall EXCEPT !.op = "DescInfoGet", !.BufferIsNull = FALSE,
                                 !.Status = "EFI_SUCCESS", !.Buffer = s.Buffer,
                                 !.ErrorSourcesLength = ErrorSourcesLength,
                                 !.ErrorSourcesCount = ErrorSourcesCount],
                        prev |-> Summary(call.c)]
            /\ mem' = s.mem
  /\ hw' = [hw EXCEPT !.generated = @ \/ ~BufferIsNull]
  /\ UNCHANGED <<Pcd, regs, pc, loc>>

Next ==
  \/ \E i \in DmcInstances, f \in Faults : HwFault(i, f)
  \/ \E i \in DmcInstances : Dmc620ErrorEventHandler(i)
  \/ \E b \in BOOLEAN : Dmc620ErrorSourceDescInfoGet(b)

Spec == Init /\ [][Next]_vars

\* PcdDmc620DramOneBitErrorDataSize is a platform's choice the driver takes
\* as it is: besides the sizes of DataSizes, a block of 128 bytes, smaller
\* than the 188 bytes Dmc620HandleDramError stores from the start of a block.
SmallDataSizes == {128}

InitSizes ==
  /\ Pcd \in [Dmc620ErrSourceCount : ErrSourceCounts,
              Dmc620DramOneBitErrorDataSize : SmallDataSizes \cup DataSizes]
  /\ regs = [i \in DmcInstances |->
               [Errgsr |-> {}, Err1 |-> ClearErrRecord, Err2 |-> ClearErrRecord]]
  /\ \E fill \in InitFill : mem = [a \in ErrorDataRegion |-> fill]
  /\ pc = "Idle"
  /\ loc = NoLocals
  /\ call = [c |-> NoCall, prev |-> Summary(NoCall)]
  /\ hw = [count |-> 0, latched |-> [i \in DmcInstances |-> {}], generated |-> FALSE]

SpecSizes == InitSizes /\ [][Next]_vars

----------------------------------------------------------------------------
(* The event handler one hardware access at a time, the hardware running    *)
(* beside it                                                               *)

\* Lines 269-284: the handler is entered for instance DmcIdx and reads Errgsr.
HandlerBegin(DmcIdx) ==
  LET ErrGsr  == regs[DmcIdx].Errgsr
      Handled == CorrectedFaultSignalled(ErrGsr)
  IN
  /\ pc = "Idle"
  /\ IF Handled
       THEN /\ loc' = SelectErrRecord(DmcIdx, DMC620_ERR_GSR_ECC_CORRECTED_FH)
            /\ pc' = "L79"
            /\ hw' = [hw EXCEPT !.latched[DmcIdx] = StillLatched(DmcIdx)]
            /\ call' = call
       ELSE /\ call' = [c |-> [NoCall EXCEPT !.op = "Dispatch", !.DmcIdx = DmcIdx,
                                  !.ErrGsr = ErrGsr, !.Status = "EFI_SUCCESS",
                                  !.CommBufferSize = 0],
                        prev |-> Summary(call.c)]
            /\ UNCHANGED <<loc, pc, hw>>
  /\ UNCHANGED <<Pcd, regs, mem>>

\* Lines 79-168: the next hardware access of Dmc620HandleDramError.
HandlerAccess ==
  /\ pc \notin {"Idle", "L174"}
  /\ LET s == HandlerStep(pc, regs[loc.DmcInstance][loc.ErrRecord], loc)
     IN /\ regs' = [regs EXCEPT ![loc.DmcInstance][loc.ErrRecord] = s.R]
        /\ loc' = s.L
  /\ pc' = NextStep(pc)
  /\ UNCHANGED <<Pcd, mem, call, hw>>

\* Lines 174-234 and 302-306: the record is stored and the handler returns.
HandlerReturn ==
  /\ pc = "L174"
  /\ mem' = BuildErrorRecord(mem, loc, ErrorBlockData(loc.DmcInstance))
  /\ call' = [c |-> [NoCall EXCEPT !.op = "Dispatch", !.DmcIdx = loc.DmcInstance,
                                   !.ErrGsr = regs[loc.DmcInstance].Errgsr,
                                   !.built = TRUE, !.Status = "EFI_SUCCESS",
                                   !.CommBufferSize = 0],
              prev |-> Summary(call.c)]
  /\ pc' = "Idle"
  /\ UNCHANGED <<Pcd, regs, loc, hw>>

\* The hardware latches a fault at any point of a running handler.
HwFaultAsync(i, f) ==
  /\ hw.count < MaxFaults
  /\ regs' = [regs EXCEPT ![i].Errgsr = f.Errgsr,
                          ![i][f.ErrRecord] = LatchFault(@, f)]
  /\ hw' = [hw EXCEPT !.count = @ + 1,
                      !.latched[i] = IF f.ErrRecord = "Err1" THEN {f} ELSE @]
  /\ UNCHANGED <<Pcd, mem, pc, loc, call>>

NextHw ==
  \/ \E i \in DmcInstances, f \in Faults : HwFaultAsync(i, f)
  \/ \E i \in DmcInstances : HandlerBegin(i)
  \/ HandlerAccess
  \/ HandlerReturn

\* The handler is called because a fault has been signalled: a behaviour
\* starts with a fault f0 latched in some instance i0 and not yet handled.
InitHw ==
  /\ Pcd \in [Dmc620ErrSourceCount : ErrSourceCounts,
              Dmc620DramOneBitErrorDataSize : DataSizes]
  /\ \E i0 \in DmcInstances, f0 \in Faults :
       /\ f0.ErrRecord = "Err1"
       /\ regs = [i \in DmcInstances |->
                    IF i = i0
                      THEN [Errgsr |-> f0.Errgsr, Err1 |-> LatchFault(ClearErrRecord, f0),
                            Err2 |-> ClearErrRecord]
                      ELSE [Errgsr |-> {}, Err1 |-> ClearErrRecord, Err2 |-> ClearErrRecord]]
       /\ hw = [count |-> 0, latched |-> [i \in DmcInstances |-> IF i = i0 THEN {f0} ELSE {}],
                generated |-> FALSE]
  /\ \E fill \in InitFill : mem = [a \in ErrorDataRegion |-> fill]
  /\ pc = "Idle"
  /\ loc = NoLocals
  /\ call = [c |-> NoCall, prev |-> Summary(NoCall)]

SpecHw == InitHw /\ [][NextHw]_vars

\* The handler moves on to its next statement: the step of HandlerAccess or
\* HandlerReturn, seen on the position of the handler alone.
HandlerRuns ==
  /\ pc /= "Idle"
  /\ pc' = (IF pc = "L174" THEN "Idle" ELSE NextStep(pc))

\* The path of the handler depends on Errgsr alone, not on the syndrome of
\* a fault: the faults with the syndrome valid in full, one for each value
\* of Errgsr and of the status address-valid bit.
LiveFaults ==
  { f \in Faults : /\ DMC620_ERR_STATUS_MV \subseteq f.ErrStatus
                   /\ DMC620_ERR_MISC0_VAILD \subseteq f.ErrMisc0
                   /\ DMC620_ERR_MISC1_VAILD \subseteq f.ErrMisc1 }

InitLive ==
  /\ InitHw
  /\ \E i \in DmcInstances : hw.latched[i] /= {} /\ hw.latched[i] \subseteq LiveFaults

NextLive ==
  \/ \E i \in DmcInstances, f \in LiveFaults : HwFaultAsync(i, f)
  \/ \E i \in DmcInstances : HandlerBegin(i)
  \/ HandlerAccess
  \/ HandlerReturn

\* The handler is straight-line code run by the processor in MM mode: once
\* entered, its next statement is executed.  The hardware and the arrival of
\* events are under no such obligation.
SpecLive == InitLive /\ [][NextLive]_vars /\ WF_pc(HandlerRuns)

----------------------------------------------------------------------------
(* The decode of ErrMisc0 over the values the register can hold            *)

\* Bits of ErrMisc0 the faults range over: the row field's lowest two bits
\* (10, 11), its bit 15 (25) and its bits 16 and 17 (26, 27), the column bit
\* below the field (9), the rank bit above it (28) and the valid bit (31).
Misc0FaultBits == {9, 10, 11, 25, 26, 27, 28, 31}

\* A 1-bit fault with ErrMisc0 = m0, the status misc-valid bit set.
Misc0Fault(m0) ==
  [ErrRecord |-> "Err1", Errgsr |-> DMC620_ERR_GSR_ECC_CORRECTED_FH,
   ErrStatus |-> DMC620_ERR_STATUS_MV, ErrAddr0 |-> {}, ErrAddr1 |-> {},
   ErrMisc0 |-> m0, ErrMisc1 |-> {}]

\* A behaviour starts with such a fault latched in one instance, signalled
\* and not yet handled.
InitDecode ==
  /\ Pcd \in [Dmc620ErrSourceCount : ErrSourceCounts,
              Dmc620DramOneBitErrorDataSize : DataSizes]
  /\ \E i0 \in DmcInstances, m0 \in SUBSET Misc0FaultBits :
       /\ regs = [i \in DmcInstances |->
                    IF i = i0
                      THEN [Errgsr |-> Misc0Fault(m0).Errgsr,
                            Err1 |-> LatchFault(ClearErrRecord, Misc0Fault(m0)),
                            Err2 |-> ClearErrRecord]
                      ELSE [Errgsr |-> {}, Err1 |-> ClearErrRecord, Err2 |-> ClearErrRecord]]
       /\ hw = [count |-> 0,
                latched |-> [i \in DmcInstances |-> IF i = i0 THEN {Misc0Fault(m0)} ELSE {}],
                generated |-> FALSE]
  /\ \E fill \in InitFill : mem = [a \in ErrorDataRegion |-> fill]
  /\ pc = "Idle"
  /\ loc = NoLocals
  /\ call = [c |-> NoCall, prev |-> Summary(NoCall)]

NextDecode == \E i \in DmcInstances : Dmc620ErrorEventHandler(i)

SpecDecode == InitDecode /\ [][NextDecode]_vars


----------------------------------------------------------------------------
(* Observations: the error status block of an instance as its consumer     *)
(* reads it, and the most recent call                                      *)

StatusPointerOf(i) == ReadMem(mem, ErrorBlockData(i) + 8, 8)

HeaderAddress(i) == ErrorBlockData(i) + 16

\* BlockStatus of the generic status header, as a bit set
BlockStatusOf(i) == BytesToBits(ReadMem(mem, HeaderAddress(i), 4))

HeaderSeverityOf(i) == ReadMem(mem, HeaderAddress(i) + 16, 4)

SectionTypeOf(i) == ReadMem(mem, HeaderAddress(i) + 20, 16)

SectionSeverityOf(i) == ReadMem(mem, HeaderAddress(i) + 20 + 16, 4)

\* A field of the memory error section, as a bit set
PayloadField(i, name) ==
  BytesToBits(ReadMem(mem, HeaderAddress(i) + 20 + 72 + MemoryErrorDataLayout[name][1],
                      MemoryErrorDataLayout[name][2]))

PayloadOf(i) == ReadMem(mem, HeaderAddress(i) + 20 + 72, 80)

\* The most recent call was a dispatch that built a record / dropped the event.
Built == call.c.op = "Dispatch" /\ call.c.built
Dropped == call.c.op = "Dispatch" /\ ~call.c.built

\* The most recent call was the descriptor call with a buffer / without one.
Filled == call.c.op = "DescInfoGet" /\ ~call.c.BufferIsNull
Sized == call.c.op = "DescInfoGet" /\ call.c.BufferIsNull

----------------------------------------------------------------------------
(* Properties                                                              *)

\* C1: every record Dmc620HandleDramError writes has exactly one of
\* CorrectableErrorValid (bit 1) / UncorrectableErrorValid (bit 0) set in its
\* status header: a corrected record CorrectableErrorValid only, an
\* uncorrected record UncorrectableErrorValid only.
C1_ExactlyOneValid ==
  Built =>
    LET bs == BlockStatusOf(call.c.DmcIdx) IN
    IF loc.CorrectedError = 1 THEN 1 \in bs /\ 0 \notin bs
                              ELSE 0 \in bs /\ 1 \notin bs

\* C2: with the hardware latching faults at any step of a running handler,
\* when a dispatch that built a record has returned, the fault the error
\* record holds (the latest latched, before or during the dispatch) is
\* described by the memory error section the dispatch built or has its status
\* bits still set in ErrStatus.
C2_NoFaultLost ==
  (pc = "Idle" /\ Built) =>
    \A f \in hw.latched[call.c.DmcIdx] :
      \/ PayloadOf(call.c.DmcIdx) = MemoryErrorDataBytes(MemorySectionInfo(f))
      \/ f.ErrStatus \subseteq regs[call.c.DmcIdx].Err1.ErrStatus

\* C3 as stated: once the descriptors have been generated, the status-pointer
\* word of every instance holds the address of the status header after it.
C3_StatusPointerAlways ==
  hw.generated =>
    \A i \in DmcInstances : StatusPointerOf(i) = NatToBytes(HeaderAddress(i), 8)

\* C3 as amended: once the descriptors have been generated, the status-pointer
\* word of every instance is zero or the address of the status header after
\* it; it is zero when the descriptors have just been generated and it is
\* the header's address in the block a dispatch has just built a record in.
C3_StatusPointerZeroOrHeader ==
  hw.generated =>
    \A i \in DmcInstances :
      /\ StatusPointerOf(i) \in {Zeros(8), NatToBytes(HeaderAddress(i), 8)}
      /\ Filled => StatusPointerOf(i) = Zeros(8)
      /\ (Built /\ call.c.DmcIdx = i) => StatusPointerOf(i) = NatToBytes(HeaderAddress(i), 8)

C3_Witness ==
  /\ hw.generated /\ Built /\ call.c.DmcIdx = 1
  /\ StatusPointerOf(0) = Zeros(8)
  /\ StatusPointerOf(1) = <<208, 0, 16, 70, 0, 0, 0, 0>>

\* C4: with ErrStatus write-one-to-clear and no new fault, after a dispatch
\* that built a record ErrStatus of error record 1 reads zero, and a second
\* dispatch for the same instance right after it builds a memory error section
\* whose ValidFields, address, column, row, extended, rank and bank are zero.
C4_RearmedThenEmpty ==
  LET i == call.c.DmcIdx IN
  /\ Built => regs[i].Err1.ErrStatus = {}
  /\ (Built /\ call.prev.op = "Dispatch" /\ call.prev.built /\ call.prev.DmcIdx = i) =>
       \A name \in {"ValidFields", "PhysicalAddress", "PhysicalAddressMask", "Column",
                    "Row", "Extended", "RankNum", "Bank"} : PayloadField(i, name) = {}

\* A second dispatch right after one that decoded a fault: the syndrome
\* registers still hold the fault, valid bits included.
C4_Witness ==
  /\ Built /\ call.prev.op = "Dispatch" /\ call.prev.built /\ call.prev.DmcIdx = call.c.DmcIdx
  /\ regs[call.c.DmcIdx].Err1.ErrAddr0 /= {}
  /\ DMC620_ERR_MISC0_VAILD \subseteq regs[call.c.DmcIdx].Err1.ErrMisc0
  /\ DMC620_ERR_MISC1_VAILD \subseteq regs[call.c.DmcIdx].Err1.ErrMisc1

\* C5: a dispatch that reads a global status without the corrected-fault bit
\* builds no record, leaves every byte of the error status blocks and every
\* register as they were, and returns EFI_SUCCESS.
C5_DroppedEventFrame ==
  [][ (call'.c.op = "Dispatch" /\ call' /= call
         /\ BitAnd(call'.c.ErrGsr, DMC620_ERR_GSR_ECC_CORRECTED_FH) = {})
        => (mem' = mem /\ regs' = regs /\ ~call'.c.built
              /\ call'.c.Status = "EFI_SUCCESS") ]_vars

\* An event dropped while another source signals and holds a latched fault.
C5_Witness ==
  /\ Dropped /\ call.c.ErrGsr = {0}
  /\ regs[call.c.DmcIdx].Err2.ErrStatus /= {}

\* C6: the descriptor call with a buffer stores as many contiguous descriptors
\* as the count it reports, and so fills the length it reports.
C6_WritesReportedCount ==
  Filled =>
    /\ Len(call.c.Buffer) = call.c.ErrorSourcesCount
    /\ \A k \in 1 .. call.c.ErrorSourcesCount : call.c.Buffer[k] /= Unwritten
    /\ Cardinality({k \in DOMAIN call.c.Buffer : call.c.Buffer[k] /= Unwritten})
         * SizeofGhesV2 = call.c.ErrorSourcesLength

\* C7: the sizing query (Buffer NULL) returns EFI_INVALID_PARAMETER and yet
\* reports count and length; the call with a buffer returns EFI_SUCCESS; a
\* call with a buffer right after a sizing query reports the same count and
\* length; in both, length = count * sizeof (GHESv2 descriptor).
C7_TwoPhaseSizing ==
  /\ Sized => /\ call.c.Status = "EFI_INVALID_PARAMETER"
              /\ call.c.ErrorSourcesCount = PcdDmc620NumCtrl * Pcd.Dmc620ErrSourceCount
              /\ call.c.ErrorSourcesLength = call.c.ErrorSourcesCount * 92
  /\ Filled => /\ call.c.Status = "EFI_SUCCESS"
               /\ call.c.ErrorSourcesLength = call.c.ErrorSourcesCount * 92
  /\ (Filled /\ call.prev.op = "DescInfoGet" /\ call.prev.BufferIsNull) =>
       /\ call.c.ErrorSourcesCount = call.prev.ErrorSourcesCount
       /\ call.c.ErrorSourcesLength = call.prev.ErrorSourcesLength

C7_Witness ==
  /\ Filled /\ call.prev.op = "DescInfoGet" /\ call.prev.BufferIsNull
  /\ Pcd.Dmc620ErrSourceCount = 2 /\ call.c.ErrorSourcesLength = 368

\* C8: the descriptors the call stores are in ascending instance order from
\* the start of the buffer: the descriptor at position k (from 0) is that of
\* instance k, with notification event id base + k, source id base + k, read
\* acknowledge address blockBase + k * blockSize and error status address 8
\* bytes above it; every instance has its descriptor.
C8_AscendingInstanceOrder ==
  Filled =>
    /\ \A k \in DmcInstances : call.c.Buffer[k + 1] /= Unwritten
    /\ \A k \in 0 .. (Len(call.c.Buffer) - 1) :
         LET d == call.c.Buffer[k + 1] IN
         d /= Unwritten =>
           /\ k \in DmcInstances
           /\ d.NotificationStructure.Vector = PcdDmc620DramErrorSdeiEventBase + k
           /\ d.SourceId = PcdDmc620DramOneBitErrorSourceId + k
           /\ d.ReadAckRegister =
                PcdDmc620DramOneBitErrorDataBase + k * Pcd.Dmc620DramOneBitErrorDataSize
           /\ d.ErrorStatusAddress = d.ReadAckRegister + 8

C8_Witness ==
  /\ Filled
  /\ call.c.Buffer[1].NotificationStructure.Vector = 804
  /\ call.c.Buffer[2].NotificationStructure.Vector = 805
  /\ call.c.Buffer[2].SourceId = 257
  /\ call.c.Buffer[2].ReadAckRegister = 1175453696 + 192

\* C9: in the memory error section a dispatch builds, the physical address
\* and physical address mask validity bits are set exactly when the ErrStatus
\* read has DMC620_ERR_STATUS_AV; then PhysicalAddress is
\* (ErrAddr1 << 32) | ErrAddr0 and PhysicalAddressMask is 48 one-bits,
\* otherwise both are zero; severity and section type are the same whatever
\* the address registers hold.
C9_PhysicalAddress ==
  Built =>
    LET i  == call.c.DmcIdx
        R  == regs[i].Err1
        Av == 31 \in loc.ErrStatus
        AddressBits == EFI_PLATFORM_MEMORY_PHY_ADDRESS_VALID
                         \cup EFI_PLATFORM_MEMORY_PHY_ADDRESS_MASK_VALID
    IN
    /\ Av => /\ AddressBits \subseteq PayloadField(i, "ValidFields")
             /\ PayloadField(i, "PhysicalAddress") =
                  R.ErrAddr0 \cup { b + 32 : b \in R.ErrAddr1 }
             /\ PayloadField(i, "PhysicalAddressMask") = 0 .. 47
             /\ (R.ErrAddr0 = {0} /\ R.ErrAddr1 = {1}) =>
                  ReadMem(mem, HeaderAddress(i) + 20 + 72 + 16, 8) = <<1, 0, 0, 0, 2, 0, 0, 0>>
    /\ ~Av => /\ AddressBits \cap PayloadField(i, "ValidFields") = {}
              /\ PayloadField(i, "PhysicalAddress") = {}
              /\ PayloadField(i, "PhysicalAddressMask") = {}
    /\ HeaderSeverityOf(i) = <<2, 0, 0, 0>>
    /\ SectionSeverityOf(i) = <<2, 0, 0, 0>>
    /\ SectionTypeOf(i) = EFI_ERROR_SECTION_PLATFORM_MEMORY_GUID

\* The address halves 0x00000001 / 0x00000002 decoded with AV set.
C9_Witness ==
  /\ Built /\ 31 \in loc.ErrStatus
  /\ loc.ErrAddr0 = {0} /\ loc.ErrAddr1 = {1}
  /\ PayloadField(call.c.DmcIdx, "PhysicalAddress") = {0, 33}

\* What C10 says of every field but the validity bit of the row.
C10_Fields(i, RowBits) ==
  LET Mv0 == 26 \in loc.ErrStatus /\ 31 \in loc.ErrMisc0
      Mv1 == 26 \in loc.ErrStatus /\ 31 \in loc.ErrMisc1
      V   == PayloadField(i, "ValidFields")
      Misc0Bits == EFI_PLATFORM_MEMORY_COLUMN_VALID \cup RowBits
                     \cup EFI_PLATFORM_MEMORY_ERROR_RANK_NUM_VALID
  IN
  /\ Mv0 => /\ Misc0Bits \subseteq V
            /\ PayloadField(i, "Column") = loc.ErrMisc0 \cap (0 .. 9)
            /\ PayloadField(i, "Row") = { b - 10 : b \in loc.ErrMisc0 \cap (10 .. 25) }
            /\ PayloadField(i, "Extended") = { b - 26 : b \in loc.ErrMisc0 \cap (26 .. 27) }
            /\ PayloadField(i, "RankNum") = { b - 28 : b \in loc.ErrMisc0 \cap (28 .. 30) }
  /\ ~Mv0 => /\ Misc0Bits \cap V = {}
             /\ \A name \in {"Column", "Row", "Extended", "RankNum"} :
                  PayloadField(i, name) = {}
  /\ Mv1 => /\ EFI_PLATFORM_MEMORY_BANK_VALID \subseteq V
            /\ PayloadField(i, "Bank") = loc.ErrMisc1 \cap (0 .. 3)
  /\ ~Mv1 => /\ EFI_PLATFORM_MEMORY_BANK_VALID \cap V = {}
             /\ PayloadField(i, "Bank") = {}
  /\ \A name \in DOMAIN MemoryErrorDataLayout \
                   {"ValidFields", "PhysicalAddress", "PhysicalAddressMask", "Column",
                    "Row", "Extended", "RankNum", "Bank"} : PayloadField(i, name) = {}

\* C10 as stated: column, row, extended row and rank are populated, each with
\* its own validity bit (column, row, extended row bits 16-17, rank) set,
\* exactly when ErrStatus has MV and ErrMisc0 its valid bit; bank with its
\* validity bit exactly when ErrStatus has MV and ErrMisc1 its valid bit;
\* every field not populated is zero with its validity bit clear.
C10_EachFieldOwnBit ==
  Built =>
    C10_Fields(call.c.DmcIdx,
               EFI_PLATFORM_MEMORY_ROW_VALID
                 \cup EFI_PLATFORM_MEMORY_ERROR_EXTENDED_ROW_BIT_16_17_VALID)

\* C10 as amended: as stated, but row and extended row share the one validity
\* bit EFI_PLATFORM_MEMORY_ERROR_EXTENDED_ROW_BIT_16_17_VALID and
\* EFI_PLATFORM_MEMORY_ROW_VALID is never set.
C10_RowSharesExtendedBit ==
  Built =>
    /\ C10_Fields(call.c.DmcIdx, EFI_PLATFORM_MEMORY_ERROR_EXTENDED_ROW_BIT_16_17_VALID)
    /\ EFI_PLATFORM_MEMORY_ROW_VALID \cap PayloadField(call.c.DmcIdx, "ValidFields") = {}

\* ErrMisc0 decoded and ErrMisc1 not: row 0x30001 gives Row 1, Extended 3.
C10_Witness ==
  /\ Built /\ 26 \in loc.ErrStatus /\ 31 \in loc.ErrMisc0 /\ 31 \notin loc.ErrMisc1
  /\ PayloadField(call.c.DmcIdx, "ValidFields") \cap {6, 8, 9, 15, 18} = {9, 15, 18}
  /\ PayloadField(call.c.DmcIdx, "Row") = {0}
  /\ PayloadField(call.c.DmcIdx, "Extended") = {0, 1}
  /\ PayloadField(call.c.DmcIdx, "Bank") = {}
  /\ loc.ErrMisc1 \cap (0 .. 3) /= {}

\* C11: in every record built from a status with the misc-valid bit set and
\* an ErrMisc0 with its valid bit set, with r the 18-bit number
\* (ErrMisc0 & DMC620_ERR_MISC0_ROW_MASK) >> DMC620_ERR_MISC0_ROW_SHIFT, the
\* Row field of the memory error section is r modulo 2^16 and the Extended
\* field is r divided by 2^16; r = 0x30001 gives Row 1 and Extended 3.
RECURSIVE NumberOf(_)
NumberOf(bits) ==
  IF bits = {} THEN 0
  ELSE LET b == CHOOSE x \in bits : TRUE IN 2 ^ b + NumberOf(bits \ {b})

C11_RowNumber == NumberOf(loc.ErrMisc0 \cap (10 .. 27)) \div 1024

C11_Gated ==
  /\ Built
  /\ 26 \in loc.ErrStatus
  /\ 31 \in loc.ErrMisc0

C11_RowAndExtended ==
  C11_Gated =>
    /\ NumberOf(PayloadField(call.c.DmcIdx, "Row")) = C11_RowNumber % 65536
    /\ NumberOf(PayloadField(call.c.DmcIdx, "Extended")) = C11_RowNumber \div 65536

C11_Witness ==
  /\ C11_Gated
  /\ C11_RowNumber = 196609
  /\ NumberOf(PayloadField(call.c.DmcIdx, "Row")) = 1
  /\ NumberOf(PayloadField(call.c.DmcIdx, "Extended")) = 3

\* C12: once the descriptors have been generated, a later generation leaves
\* the error status blocks alone: when a dispatch has built a record in the
\* block of instance i and the descriptors are generated again into a
\* buffer, the record (status-pointer word, status header, data-entry header
\* and memory error section) is byte for byte what it was.
C12_RecordOf(m, i) ==
  ReadMem(m, ErrorBlockData(i) + ErrorStatusRegisterOffset,
          SizeofUintn + SizeofStatus + SizeofDataEntry + SizeofMemoryErrorData)

C12_GeneratorLeavesRecord ==
  [][ (hw.generated /\ Built /\ Filled')
        => C12_RecordOf(mem', call.c.DmcIdx) = C12_RecordOf(mem, call.c.DmcIdx) ]_vars

\* C13: the event handler is Idle or Handling (inside Dmc620HandleDramError),
\* and a handler that is Handling is eventually Idle again, whatever the
\* hardware does meanwhile; every dispatch, for every instance and every
\* value of Errgsr, whether it built a record or dropped the event, has
\* returned EFI_SUCCESS and set the communication buffer size to 0.
C13_Handling == pc /= "Idle"

C13_DispatchCompletes ==
  /\ C13_Handling ~> (pc = "Idle" /\ Built)
  /\ [](call.c.op = "Dispatch" =>
         /\ call.c.Status = "EFI_SUCCESS"
         /\ call.c.CommBufferSize = 0)

C13_Witness ==
  /\ pc = "Idle"
  /\ Built
  /\ call.prev.op = "Dispatch" /\ ~call.prev.built
  /\ call.c.Status = "EFI_SUCCESS" /\ call.c.CommBufferSize = 0

\* C14: a dispatch for instance i changes nothing outside instance i,
\* whatever the configured block size: of the registers it changes only
\* ErrStatus and ErrMisc2..ErrMisc5 of the error record it selected in
\* instance i, and of the memory only bytes of instance i's own error status
\* block [ErrorBlockData(i), ErrorBlockData(i) + block size); the registers
\* and the blocks of every other instance are as they were.
C14_OwnBlock(i) ==
  ErrorBlockData(i) .. (ErrorBlockData(i) + Pcd.Dmc620DramOneBitErrorDataSize - 1)

C14_RegistersConfined(i) ==
  /\ \A j \in DmcInstances \ {i} : regs'[j] = regs[j]
  /\ regs'[i].Errgsr = regs[i].Errgsr
  /\ regs'[i].Err2 = regs[i].Err2
  /\ \A r \in ErrRegNames \ {"ErrStatus", "ErrMisc2", "ErrMisc3", "ErrMisc4", "ErrMisc5"} :
       regs'[i].Err1[r] = regs[i].Err1[r]

C14_MemoryConfined(i) ==
  \A a \in ErrorDataRegion \ C14_OwnBlock(i) : mem'[a] = mem[a]

C14_DispatchConfined ==
  [][ call'.c.op = "Dispatch" =>
        /\ C14_RegistersConfined(call'.c.DmcIdx)
        /\ C14_MemoryConfined(call'.c.DmcIdx) ]_vars

\* C15: a dispatch leaves the read acknowledge word (offset 0 of the error
\* status block it is given) as it was, and builds the record whatever the
\* word holds: after every dispatch with the 1-bit fault signalled the
\* status-pointer word and the status header of the block are those of a
\* record just built, so a record the consumer has not acknowledged is
\* overwritten by the next dispatch for the same instance.
C15_AckWordOf(m, i) == ReadMem(m, ErrorBlockData(i), SizeofUintn)

C15_AckWordUntouched ==
  [][ call'.c.op = "Dispatch" =>
        LET i == call'.c.DmcIdx IN
        /\ C15_AckWordOf(mem', i) = C15_AckWordOf(mem, i)
        /\ CorrectedFaultSignalled(regs[i].Errgsr) =>
             /\ call'.c.built
             /\ ReadMem(mem', ErrorBlockData(i) + 8, 8) = NatToBytes(ErrorBlockData(i) + 16, 8)
             /\ ReadMem(mem', ErrorBlockData(i) + 16 + 12, 4) = NatToBytes(SizeofDataEntry + SizeofMemoryErrorData, 4) ]_vars

\* A second dispatch in a row for the same instance has built its record
\* over the record of the first; the read acknowledge word is what the
\* descriptor generation left there.
C15_Witness ==
  /\ Built
  /\ call.prev.op = "Dispatch" /\ call.prev.built
  /\ call.prev.DmcIdx = call.c.DmcIdx
  /\ hw.generated
  /\ C15_AckWordOf(mem, call.c.DmcIdx) = Zeros(8)
  /\ StatusPointerOf(call.c.DmcIdx) = NatToBytes(HeaderAddress(call.c.DmcIdx), 8)
  /\ PayloadOf(call.c.DmcIdx) = Zeros(80)

=============================================================================
